---- MODULE Spec2Model ----
(***************************************************************************)
(* The lexical scanner of lox-rs (src/src/tokenizer.rs): Tokenizer::new,   *)
(* Tokenizer::tokenize with its one loop iteration per step,               *)
(* get_2d_location and generate_report.                                    *)
(*                                                                         *)
(* A character is a one-character string; it stands for one byte of the    *)
(* source read as `bytes[i] as char`.  A byte above 0x7F is written "xHH". *)
(* A Rust String is a sequence of such characters.  The text of a          *)
(* diagnostic is a sequence of pieces whose concatenation is the string:   *)
(* the literal pieces of a format string are kept whole.                   *)
(***************************************************************************)
EXTENDS Integers, Sequences, FiniteSets, TLC

VARIABLES source, offset, tokens,
          errors, reading_string, reading_number, reading_identifier,
          read_start_offset, escape_next, string_buf,
          pc, result, calls

vars == <<source, offset, tokens, errors, reading_string, reading_number,
          reading_identifier, read_start_offset, escape_next, string_buf,
          pc, result, calls>>

\* Longest source text a Tokenizer is constructed from.
MaxLen == 4

\* Most calls of tokenize made on one Tokenizer.
MaxCalls == 2

(***************************************************************************)
(* Character classes of `char` restricted to U+0000..U+00FF, the range of  *)
(* `u8 as char`.                                                           *)
(***************************************************************************)
AsciiDigits == {"0", "1", "2", "3", "4", "5", "6", "7", "8", "9"}

AsciiLetters ==
  {"a", "b", "c", "d", "e", "f", "g", "h", "i", "j", "k", "l", "m", "n",
    "o", "p", "q", "r", "s", "t", "u", "v", "w", "x", "y", "z",
    "A", "B", "C", "D", "E", "F", "G", "H", "I", "J", "K", "L", "M", "N",
    "O", "P", "Q", "R", "S", "T", "U", "V", "W", "X", "Y", "Z"}

\* U+00AA, U+00B5, U+00BA, U+00C0..U+00D6, U+00D8..U+00F6, U+00F8..U+00FF
Latin1Letters ==
  {"xAA", "xB5", "xBA", "xC0", "xC1", "xC2", "xC3", "xC4", "xC5", "xC6",
    "xC7", "xC8", "xC9", "xCA", "xCB", "xCC", "xCD", "xCE", "xCF", "xD0",
    "xD1", "xD2", "xD3", "xD4", "xD5", "xD6", "xD8", "xD9", "xDA", "xDB",
    "xDC", "xDD", "xDE", "xDF", "xE0", "xE1", "xE2", "xE3", "xE4", "xE5",
    "xE6", "xE7", "xE8", "xE9", "xEA", "xEB", "xEC", "xED", "xEE", "xEF",
    "xF0", "xF1", "xF2", "xF3", "xF4", "xF5", "xF6", "xF8", "xF9", "xFA",
    "xFB", "xFC", "xFD", "xFE", "xFF"}

\* U+00B2, U+00B3, U+00B9, U+00BC, U+00BD, U+00BE
Latin1Numerics == {"xB2", "xB3", "xB9", "xBC", "xBD", "xBE"}

\* Mutant: only the blank counts as whitespace.
is_whitespace_blank_only(c) == c = " "

\* char::is_whitespace: U+0009..U+000D, U+0020, U+0085, U+00A0
is_whitespace(c) == c \in {"\t", "\n", "x0B", "\f", "\r", " ", "x85", "xA0"}

\* char::is_numeric
is_numeric(c) == c \in AsciiDigits \cup Latin1Numerics

\* char::is_alphabetic
is_alphabetic(c) == c \in AsciiLetters \cup Latin1Letters

\* char::is_alphanumeric
is_alphanumeric(c) == is_alphabetic(c) \/ is_numeric(c)

\* static OPERATORS: &str = "!=><"
OPERATORS == {"!", "=", ">", "<"}

Punctuation == {"(", ")", "{", "}", ",", ".", "-", "+", ";", "*"}

(***************************************************************************)
(* enum Token.  Every token is a record of the same shape so that any two  *)
(* tokens can be compared: `text` is the String of Identifier and String,  *)
(* `value` the f64 of Number (see F64Value), and both are empty otherwise. *)
(***************************************************************************)
Tok(t) == [type |-> t, text |-> <<>>, value |-> <<0, 0>>]

IdentifierTok(s) == [type |-> "Identifier", text |-> s, value |-> <<0, 0>>]

StringTok(s) == [type |-> "String", text |-> s, value |-> <<0, 0>>]

NumberTok(v) == [type |-> "Number", text |-> <<>>, value |-> v]

Eof == Tok("Eof")

\* The first ten arms of `match c`.
PunctuationToken(c) ==
    CASE c = "(" -> Tok("LeftParen")
      [] c = ")" -> Tok("RightParen")
      [] c = "{" -> Tok("LeftBrace")
      [] c = "}" -> Tok("RightBrace")
      [] c = "," -> Tok("Comma")
      [] c = "." -> Tok("Dot")
      [] c = "-" -> Tok("Minus")
      [] c = "+" -> Tok("Plus")
      [] c = ";" -> Tok("Semicolon")
      [] c = "*" -> Tok("Star")

\* Mutant: the keyword table is not consulted.
KeywordTokenNoTable(iden) == IdentifierTok(iden)

\* `match &iden[..]`: the keyword of a spelling, or Identifier(iden).
KeywordToken(iden) ==
    CASE iden = <<"a", "n", "d">> -> Tok("And")
      [] iden = <<"c", "l", "a", "s", "s">> -> Tok("Class")
      [] iden = <<"e", "l", "s", "e">> -> Tok("Else")
      [] iden = <<"f", "a", "l", "s", "e">> -> Tok("False")
      [] iden = <<"f", "u", "n">> -> Tok("Fun")
      [] iden = <<"f", "o", "r">> -> Tok("For")
      [] iden = <<"i", "f">> -> Tok("If")
      [] iden = <<"n", "i", "l">> -> Tok("Nil")
      [] iden = <<"o", "r">> -> Tok("Or")
      [] iden = <<"p", "r", "i", "n", "t">> -> Tok("Print")
      [] iden = <<"r", "e", "t", "u", "r", "n">> -> Tok("Return")
      [] iden = <<"s", "u", "p", "e", "r">> -> Tok("Super")
      [] iden = <<"t", "h", "i", "s">> -> Tok("This")
      [] iden = <<"t", "r", "u", "e">> -> Tok("True")
      [] iden = <<"v", "a", "r">> -> Tok("Var")
      [] iden = <<"w", "h", "i", "l", "e">> -> Tok("While")
      [] OTHER -> IdentifierTok(iden)

\* The token of an operator character followed by '='.
TwoCharToken(c) ==
    CASE c = "!" -> Tok("BangEqual")
      [] c = "=" -> Tok("EqualEqual")
      [] c = "<" -> Tok("LessEqual")
      [] c = ">" -> Tok("GreatEqual")

\* The token of an operator character not followed by '='.
OneCharToken(c) ==
    CASE c = "!" -> Tok("Bang")
      [] c = "=" -> Tok("Equal")
      [] c = "<" -> Tok("Less")
      [] c = ">" -> Tok("Greater")

(***************************************************************************)
(* str::parse::<f64> on the text of a number lexeme, which holds only      *)
(* characters that are is_numeric or '.'.  The text parses iff it is ASCII *)
(* digits with at most one '.', and at least one digit.  The value is the  *)
(* pair <<m, d>> standing for m / 10^d with d least: two texts of at most  *)
(* 15 digits parse to the same f64 iff they have the same pair.            *)
(***************************************************************************)
DotCount(s) == Cardinality({i \in 1..Len(s) : s[i] = "."})

F64Parses(s) ==
    /\ \A i \in 1..Len(s) : s[i] \in AsciiDigits \cup {"."}
    /\ \E i \in 1..Len(s) : s[i] \in AsciiDigits
    /\ DotCount(s) <= 1

DigitValue(c) ==
    CASE c = "0" -> 0 [] c = "1" -> 1 [] c = "2" -> 2 [] c = "3" -> 3
      [] c = "4" -> 4 [] c = "5" -> 5 [] c = "6" -> 6 [] c = "7" -> 7
      [] c = "8" -> 8 [] c = "9" -> 9

RECURSIVE Mantissa(_, _)
Mantissa(s, acc) ==
    IF s = <<>> THEN acc
    ELSE IF Head(s) = "." THEN Mantissa(Tail(s), acc)
    ELSE Mantissa(Tail(s), 10 * acc + DigitValue(Head(s)))

FractionDigits(s) ==
    IF \E i \in 1..Len(s) : s[i] = "."
    THEN Len(s) - (CHOOSE i \in 1..Len(s) : s[i] = ".")
    ELSE 0

RECURSIVE Normalise(_, _)
Normalise(m, d) ==
    IF d > 0 /\ m % 10 = 0 THEN Normalise(m \div 10, d - 1) ELSE <<m, d>>

F64Value(s) == Normalise(Mantissa(s, 0), FractionDigits(s))

(***************************************************************************)
(* get_2d_location and generate_report.                                    *)
(***************************************************************************)
RECURSIVE LocationWalk(_, _, _, _, _)
LocationWalk(bytes, current_offset, off, line, column) ==
    IF current_offset < off
    THEN LET c == bytes[current_offset + 1]
             line1 == IF c = "\n" THEN line + 1 ELSE line
             column1 == IF c = "\n" THEN 1 ELSE column
         IN  LocationWalk(bytes, current_offset + 1, off, line1, column1 + 1)
    ELSE <<line, column>>

get_2d_location(bytes, off) == LocationWalk(bytes, 0, off, 1, 1)

\* Display of a usize.
RECURSIVE ToDigits(_)
ToDigits(n) ==
    LET d == CASE n % 10 = 0 -> "0" [] n % 10 = 1 -> "1" [] n % 10 = 2 -> "2"
               [] n % 10 = 3 -> "3" [] n % 10 = 4 -> "4" [] n % 10 = 5 -> "5"
               [] n % 10 = 6 -> "6" [] n % 10 = 7 -> "7" [] n % 10 = 8 -> "8"
               [] n % 10 = 9 -> "9"
    IN  IF n < 10 THEN <<d>> ELSE Append(ToDigits(n \div 10), d)

\* format!("[{}:{}] Error: {}", location.0, location.1, message)
FormatReport(line, column, message) ==
    <<"[">> \o ToDigits(line) \o <<":">> \o ToDigits(column)
            \o <<"] Error: ">> \o message

generate_report(bytes, message, off) ==
    LET location == get_2d_location(bytes, off)
    IN  FormatReport(location[1], location[2], message)

InvalidNumberMessage(num_string) == <<"Invalid number '">> \o num_string \o <<"'">>

InvalidTokenMessage(c) == <<"Invalid token '", c, "'">>

UnterminatedMessage(buf) == <<"Unterminated string ">> \o buf

\* errors.join("\n")
RECURSIVE JoinErrors(_)
JoinErrors(es) ==
    IF es = <<>> THEN <<>>
    ELSE IF Len(es) = 1 THEN es[1]
    ELSE es[1] \o <<"\n">> \o JoinErrors(Tail(es))

\* Result<Vec<Token>, String>
Ok(ts) == [tag |-> "Ok", tokens |-> ts, text |-> <<>>]

Err(text) == [tag |-> "Err", tokens |-> <<>>, text |-> text]

NoResult == [tag |-> "None", tokens |-> <<>>, text |-> <<>>]

(***************************************************************************)
(* The source texts.  `source` is a String, so its bytes are valid UTF-8:  *)
(* a byte above 0x7F occurs only inside a multi-byte sequence.  The        *)
(* alphabet holds the two bytes of U+05FC (0xD7 0xBC), the two-byte        *)
(* sequences being the only ones ValidUtf8 needs to recognise here.        *)
(***************************************************************************)
Alphabet ==
    {" ", "\n", "\"", "\\", "1", ".", "o", "r", "!", "=", "<", "/", "@",
     "xD7", "xBC"}

Utf8Lead2 ==
  {"xC2", "xC3", "xC4", "xC5", "xC6", "xC7", "xC8", "xC9", "xCA", "xCB",
    "xCC", "xCD", "xCE", "xCF", "xD0", "xD1", "xD2", "xD3", "xD4", "xD5",
    "xD6", "xD7", "xD8", "xD9", "xDA", "xDB", "xDC", "xDD", "xDE", "xDF"}

Utf8Continuation ==
  {"x80", "x81", "x82", "x83", "x84", "x85", "x86", "x87", "x88", "x89",
    "x8A", "x8B", "x8C", "x8D", "x8E", "x8F", "x90", "x91", "x92", "x93",
    "x94", "x95", "x96", "x97", "x98", "x99", "x9A", "x9B", "x9C", "x9D",
    "x9E", "x9F", "xA0", "xA1", "xA2", "xA3", "xA4", "xA5", "xA6", "xA7",
    "xA8", "xA9", "xAA", "xAB", "xAC", "xAD", "xAE", "xAF", "xB0", "xB1",
    "xB2", "xB3", "xB4", "xB5", "xB6", "xB7", "xB8", "xB9", "xBA", "xBB",
    "xBC", "xBD", "xBE", "xBF"}

RECURSIVE ValidUtf8From(_, _)
ValidUtf8From(s, i) ==
    IF i > Len(s) THEN TRUE
    ELSE IF s[i] \in Utf8Lead2
         THEN i + 1 <= Len(s) /\ s[i + 1] \in Utf8Continuation
              /\ ValidUtf8From(s, i + 2)
    ELSE IF s[i] \in Utf8Continuation THEN FALSE
    ELSE ValidUtf8From(s, i + 1)

ValidUtf8(s) == ValidUtf8From(s, 1)

\* Every text of at most MaxLen bytes over the alphabet.
BoundedSource(s) ==
    \E n \in 0..MaxLen : s \in [1..n -> Alphabet] /\ ValidUtf8(s)

\* The spellings of the arms of `match &iden[..]`.
KeywordSpellings ==
    {<<"a", "n", "d">>, <<"c", "l", "a", "s", "s">>,
     <<"e", "l", "s", "e">>, <<"f", "a", "l", "s", "e">>,
     <<"f", "u", "n">>, <<"f", "o", "r">>, <<"i", "f">>,
     <<"n", "i", "l">>, <<"o", "r">>, <<"p", "r", "i", "n", "t">>,
     <<"r", "e", "t", "u", "r", "n">>, <<"s", "u", "p", "e", "r">>,
     <<"t", "h", "i", "s">>, <<"t", "r", "u", "e">>,
     <<"v", "a", "r">>, <<"w", "h", "i", "l", "e">>}

UpperCase(c) ==
    CASE c = "a" -> "A" [] c = "c" -> "C" [] c = "e" -> "E" [] c = "f" -> "F"
      [] c = "i" -> "I" [] c = "n" -> "N" [] c = "o" -> "O" [] c = "p" -> "P"
      [] c = "r" -> "R" [] c = "s" -> "S" [] c = "t" -> "T" [] c = "v" -> "V"
      [] c = "w" -> "W"

\* Each reserved spelling alone, and the words nearest to it: one letter
\* longer, one letter shorter, and with its first letter in upper case.
WordSources ==
    UNION {{w, Append(w, "s"), SubSeq(w, 1, Len(w) - 1),
            <<UpperCase(Head(w))>> \o Tail(w)} : w \in KeywordSpellings}

\* Number literals with the digits of tests::test_numbers.
NumberSources ==
    {<<"1", ".", "2">>, <<"1", ".", "0">>, <<"0", ".", "1">>, <<"1", "0">>}

\* The inputs of the spec's examples of a lexeme closed by the next one.
ClosingSources == {<<"x", "=", "1", ";">>, <<"1", "a", "b", "c">>}

IsSource(s) ==
    BoundedSource(s) \/ s \in WordSources \cup NumberSources \cup ClosingSources

(***************************************************************************)
(* Tokenizer::new: the state after construction.  The locals of tokenize   *)
(* do not exist yet and hold the values tokenize gives them first.         *)
(***************************************************************************)
Init ==
    /\ IsSource(source)
    /\ offset = 0
    /\ tokens = <<>>
    /\ errors = <<>>
    /\ reading_string = FALSE
    /\ reading_number = FALSE
    /\ reading_identifier = FALSE
    /\ read_start_offset = 0
    /\ escape_next = FALSE
    /\ string_buf = <<>>
    /\ pc = "ready"
    /\ result = NoResult
    /\ calls = 0

\* Mutant: the sentinel is not pushed.
SentinelOmitted(s) == s

\* self.source.push(' ')
SentinelExtended(s) == Append(s, " ")

(***************************************************************************)
(* The entry of tokenize: the sentinel is pushed and the locals are        *)
(* initialised; offset and tokens are fields and keep their values.        *)
(***************************************************************************)
TokenizeBegin ==
    /\ pc \in {"ready", "returned"}
    /\ calls < MaxCalls
    /\ source' = SentinelExtended(source)
    /\ errors' = <<>>
    /\ reading_string' = FALSE
    /\ reading_number' = FALSE
    /\ reading_identifier' = FALSE
    /\ read_start_offset' = 0
    /\ escape_next' = FALSE
    /\ string_buf' = <<>>
    /\ pc' = "scan"
    /\ result' = NoResult
    /\ calls' = calls + 1
    /\ UNCHANGED <<offset, tokens>>

\* `while self.offset < self.source.len()` and `let c = bytes[self.offset] as char`
InLoop == pc = "scan" /\ offset < Len(source)

CurChar == source[offset + 1]

\* `self.offset<bytes.len() && bytes[self.offset] as char == ch`, read after
\* `self.offset += 1`
NextIs(ch) == offset + 1 < Len(source) /\ source[offset + 2] = ch

(***************************************************************************)
(* if reading_string { ... }                                               *)
(***************************************************************************)
StringEscaped ==
    /\ InLoop /\ reading_string /\ escape_next
    /\ string_buf' = Append(string_buf, CurChar)
    /\ escape_next' = FALSE
    /\ offset' = offset + 1
    /\ UNCHANGED <<source, tokens, errors, reading_string, reading_number,
                   reading_identifier, read_start_offset, pc, result, calls>>

\* Mutant: the closing quote pushes the token without emptying the buffer.
StringCloseKeepsBuffer ==
    /\ InLoop /\ reading_string /\ ~escape_next
    /\ CurChar = "\""
    /\ reading_string' = FALSE
    /\ tokens' = Append(tokens, StringTok(string_buf))
    /\ offset' = offset + 1
    /\ UNCHANGED <<source, errors, reading_number, reading_identifier,
                   read_start_offset, escape_next, string_buf, pc, result,
                   calls>>

StringClose ==
    /\ InLoop /\ reading_string /\ ~escape_next
    /\ CurChar = "\""
    /\ reading_string' = FALSE
    /\ tokens' = Append(tokens, StringTok(string_buf))
    /\ string_buf' = <<>>
    /\ offset' = offset + 1
    /\ UNCHANGED <<source, errors, reading_number, reading_identifier,
                   read_start_offset, escape_next, pc, result, calls>>

\* Mutant: the escaping backslash is stored as well.
StringBackslashStored ==
    /\ InLoop /\ reading_string /\ ~escape_next
    /\ CurChar # "\""
    /\ CurChar = "\\"
    /\ escape_next' = TRUE
    /\ string_buf' = Append(string_buf, CurChar)
    /\ offset' = offset + 1
    /\ UNCHANGED <<source, tokens, errors, reading_string, reading_number,
                   reading_identifier, read_start_offset, pc, result, calls>>

StringBackslash ==
    /\ InLoop /\ reading_string /\ ~escape_next
    /\ CurChar # "\""
    /\ CurChar = "\\"
    /\ escape_next' = TRUE
    /\ offset' = offset + 1
    /\ UNCHANGED <<source, tokens, errors, reading_string, reading_number,
                   reading_identifier, read_start_offset, string_buf, pc,
                   result, calls>>

StringChar ==
    /\ InLoop /\ reading_string /\ ~escape_next
    /\ CurChar # "\""
    /\ CurChar # "\\"
    /\ string_buf' = Append(string_buf, CurChar)
    /\ offset' = offset + 1
    /\ UNCHANGED <<source, tokens, errors, reading_string, reading_number,
                   reading_identifier, read_start_offset, escape_next, pc,
                   result, calls>>

(***************************************************************************)
(* if reading_number { ... }                                               *)
(***************************************************************************)
NumberContinues(c) == is_numeric(c) \/ c = "."

NumberAccumulate ==
    /\ InLoop /\ ~reading_string
    /\ reading_number /\ NumberContinues(CurChar)
    /\ string_buf' = Append(string_buf, CurChar)
    /\ offset' = offset + 1
    /\ UNCHANGED <<source, tokens, errors, reading_string, reading_number,
                   reading_identifier, read_start_offset, escape_next, pc,
                   result, calls>>

\* An iteration that gets past the `continue` of the number block.
PastNumber ==
    /\ InLoop /\ ~reading_string
    /\ ~(reading_number /\ NumberContinues(CurChar))

\* The state after the number block: an open number is closed.
TokensAfterNumber ==
    IF reading_number /\ F64Parses(string_buf)
    THEN Append(tokens, NumberTok(F64Value(string_buf)))
    ELSE tokens

\* Mutant: an invalid number is reported at the character that closes it.
ErrorsAfterNumberAtClose ==
    IF reading_number /\ ~F64Parses(string_buf)
    THEN Append(errors, generate_report(source,
                    InvalidNumberMessage(string_buf), offset))
    ELSE errors

ErrorsAfterNumber ==
    IF reading_number /\ ~F64Parses(string_buf)
    THEN Append(errors, generate_report(source,
                    InvalidNumberMessage(string_buf), read_start_offset))
    ELSE errors

BufAfterNumber == IF reading_number THEN <<>> ELSE string_buf

(***************************************************************************)
(* if reading_identifier { ... }                                           *)
(***************************************************************************)
IdentifierAccumulate ==
    /\ PastNumber
    /\ reading_identifier /\ is_alphanumeric(CurChar)
    /\ string_buf' = Append(BufAfterNumber, CurChar)
    /\ tokens' = TokensAfterNumber
    /\ errors' = ErrorsAfterNumber
    /\ reading_number' = FALSE
    /\ offset' = offset + 1
    /\ UNCHANGED <<source, reading_string, reading_identifier,
                   read_start_offset, escape_next, pc, result, calls>>

\* An iteration that gets past the `continue` of the identifier block.
PastIdentifier ==
    /\ PastNumber
    /\ ~(reading_identifier /\ is_alphanumeric(CurChar))

\* The state after the identifier block: an open identifier is closed.
TokensAfterClose ==
    IF reading_identifier
    THEN Append(TokensAfterNumber, KeywordToken(BufAfterNumber))
    ELSE TokensAfterNumber

BufAfterClose == IF reading_identifier THEN <<>> ELSE BufAfterNumber

\* What every iteration past the identifier block does to the lexeme flags.
Closed ==
    /\ reading_number' = FALSE
    /\ reading_identifier' = FALSE
    /\ errors' = ErrorsAfterNumber
    /\ string_buf' = BufAfterClose

(***************************************************************************)
(* if c.is_whitespace() { continue; } and match c { ... }                  *)
(***************************************************************************)
SkipWhitespace ==
    /\ PastIdentifier
    /\ is_whitespace(CurChar)
    /\ Closed
    /\ tokens' = TokensAfterClose
    /\ offset' = offset + 1
    /\ UNCHANGED <<source, reading_string, read_start_offset, escape_next,
                   pc, result, calls>>

\* An iteration that reaches `match c`.
AtMatch == PastIdentifier /\ ~is_whitespace(CurChar)

PunctuationStep ==
    /\ AtMatch
    /\ CurChar \in Punctuation
    /\ Closed
    /\ tokens' = Append(TokensAfterClose, PunctuationToken(CurChar))
    /\ offset' = offset + 1
    /\ UNCHANGED <<source, reading_string, read_start_offset, escape_next,
                   pc, result, calls>>

\* An iteration that reaches the `_` arm of `match c`.
AtDefault == AtMatch /\ CurChar \notin Punctuation

OpenString ==
    /\ AtDefault
    /\ CurChar = "\""
    /\ read_start_offset' = offset
    /\ reading_string' = TRUE
    /\ Closed
    /\ tokens' = TokensAfterClose
    /\ offset' = offset + 1
    /\ UNCHANGED <<source, escape_next, pc, result, calls>>

OpenNumber ==
    /\ AtDefault
    /\ CurChar # "\""
    /\ is_numeric(CurChar)
    /\ read_start_offset' = offset
    /\ reading_number' = TRUE
    /\ reading_identifier' = FALSE
    /\ errors' = ErrorsAfterNumber
    /\ string_buf' = Append(BufAfterClose, CurChar)
    /\ tokens' = TokensAfterClose
    /\ offset' = offset + 1
    /\ UNCHANGED <<source, reading_string, escape_next, pc, result, calls>>

OpenIdentifier ==
    /\ AtDefault
    /\ CurChar # "\""
    /\ ~is_numeric(CurChar)
    /\ is_alphabetic(CurChar)
    /\ read_start_offset' = offset
    /\ reading_number' = FALSE
    /\ reading_identifier' = TRUE
    /\ errors' = ErrorsAfterNumber
    /\ string_buf' = Append(BufAfterClose, CurChar)
    /\ tokens' = TokensAfterClose
    /\ offset' = offset + 1
    /\ UNCHANGED <<source, reading_string, escape_next, pc, result, calls>>

\* An iteration that reaches `if OPERATORS.contains(c)`.
AtOperators ==
    /\ AtDefault
    /\ CurChar # "\""
    /\ ~is_numeric(CurChar)
    /\ ~is_alphabetic(CurChar)

\* Mutant: the '=' of a two-character operator is not consumed.
OperatorTwoCharNoAdvance ==
    /\ AtOperators
    /\ CurChar \in OPERATORS
    /\ NextIs("=")
    /\ Closed
    /\ tokens' = Append(TokensAfterClose, TwoCharToken(CurChar))
    /\ offset' = offset + 1
    /\ UNCHANGED <<source, reading_string, read_start_offset, escape_next,
                   pc, result, calls>>

OperatorTwoChar ==
    /\ AtOperators
    /\ CurChar \in OPERATORS
    /\ NextIs("=")
    /\ Closed
    /\ tokens' = Append(TokensAfterClose, TwoCharToken(CurChar))
    /\ offset' = offset + 2
    /\ UNCHANGED <<source, reading_string, read_start_offset, escape_next,
                   pc, result, calls>>

\* Mutant: an operator that closes a lexeme is dropped.
OperatorOneCharLostAfterClose ==
    /\ AtOperators
    /\ CurChar \in OPERATORS
    /\ ~NextIs("=")
    /\ Closed
    /\ tokens' = IF reading_number \/ reading_identifier
                 THEN TokensAfterClose
                 ELSE Append(TokensAfterClose, OneCharToken(CurChar))
    /\ offset' = offset + 1
    /\ UNCHANGED <<source, reading_string, read_start_offset, escape_next,
                   pc, result, calls>>

OperatorOneChar ==
    /\ AtOperators
    /\ CurChar \in OPERATORS
    /\ ~NextIs("=")
    /\ Closed
    /\ tokens' = Append(TokensAfterClose, OneCharToken(CurChar))
    /\ offset' = offset + 1
    /\ UNCHANGED <<source, reading_string, read_start_offset, escape_next,
                   pc, result, calls>>

\* Mutant: the skip also consumes the newline that ends the comment.
RECURSIVE SkipCommentThroughNewline(_, _)
SkipCommentThroughNewline(bytes, o) ==
    IF o < Len(bytes)
    THEN IF bytes[o + 1] = "\n" THEN o + 1
         ELSE SkipCommentThroughNewline(bytes, o + 1)
    ELSE o

\* Mutant: the skip always consumes one more character, for the newline.
SkipCommentPastEnd(bytes, o) == SkipCommentThroughNewline(bytes, o) + 1

\* `while self.offset < bytes.len() && bytes[self.offset] as char != '\n'`
RECURSIVE SkipComment(_, _)
SkipComment(bytes, o) ==
    IF o < Len(bytes) /\ bytes[o + 1] # "\n"
    THEN SkipComment(bytes, o + 1)
    ELSE o

\* Mutant: the first '/' of a comment is emitted as a Slash.
CommentStepEmitsSlash ==
    /\ AtOperators
    /\ CurChar \notin OPERATORS
    /\ CurChar = "/"
    /\ NextIs("/")
    /\ Closed
    /\ tokens' = Append(TokensAfterClose, Tok("Slash"))
    /\ offset' = SkipComment(source, offset + 1)
    /\ UNCHANGED <<source, reading_string, read_start_offset, escape_next,
                   pc, result, calls>>

CommentStep ==
    /\ AtOperators
    /\ CurChar \notin OPERATORS
    /\ CurChar = "/"
    /\ NextIs("/")
    /\ Closed
    /\ tokens' = TokensAfterClose
    /\ offset' = SkipComment(source, offset + 1)
    /\ UNCHANGED <<source, reading_string, read_start_offset, escape_next,
                   pc, result, calls>>

SlashStep ==
    /\ AtOperators
    /\ CurChar \notin OPERATORS
    /\ CurChar = "/"
    /\ ~NextIs("/")
    /\ Closed
    /\ tokens' = Append(TokensAfterClose, Tok("Slash"))
    /\ offset' = offset + 1
    /\ UNCHANGED <<source, reading_string, read_start_offset, escape_next,
                   pc, result, calls>>

\* Mutant: an invalid token ends the scan.
InvalidTokenAborts ==
    /\ AtOperators
    /\ CurChar \notin OPERATORS
    /\ CurChar # "/"
    /\ reading_number' = FALSE
    /\ reading_identifier' = FALSE
    /\ string_buf' = BufAfterClose
    /\ errors' = Append(ErrorsAfterNumber,
                    generate_report(source, InvalidTokenMessage(CurChar), offset))
    /\ tokens' = TokensAfterClose
    /\ offset' = Len(source)
    /\ UNCHANGED <<source, reading_string, read_start_offset, escape_next,
                   pc, result, calls>>

InvalidToken ==
    /\ AtOperators
    /\ CurChar \notin OPERATORS
    /\ CurChar # "/"
    /\ reading_number' = FALSE
    /\ reading_identifier' = FALSE
    /\ string_buf' = BufAfterClose
    /\ errors' = Append(ErrorsAfterNumber,
                    generate_report(source, InvalidTokenMessage(CurChar), offset))
    /\ tokens' = TokensAfterClose
    /\ offset' = offset + 1
    /\ UNCHANGED <<source, reading_string, read_start_offset, escape_next,
                   pc, result, calls>>

(***************************************************************************)
(* After the loop: the unterminated-string report, the Eof and the result. *)
(***************************************************************************)
\* Mutant: the unterminated string is reported at the cursor, the end of the
\* buffer, not at its opening quote.
ErrorsAtEndAnchoredAtCursor ==
    IF reading_string
    THEN Append(errors, generate_report(source,
                    UnterminatedMessage(string_buf), offset))
    ELSE errors

ErrorsAtEnd ==
    IF reading_string
    THEN Append(errors, generate_report(source,
                    UnterminatedMessage(string_buf), read_start_offset))
    ELSE errors

\* Mutant: no Eof is pushed.
FinishedTokensNoEof(ts) == ts

\* self.tokens.push(Token::Eof)
FinishedTokens(ts) == Append(ts, Eof)

\* Mutant: the tokens are returned whatever was recorded.
TokenizeResultAlwaysOk(es, ts) == Ok(ts)

\* `if errors.len() > 0 { return Err(errors.join("\n")); }
\*  Ok(std::mem::take(&mut self.tokens))`
TokenizeResult(es, ts) == IF Len(es) > 0 THEN Err(JoinErrors(es)) ELSE Ok(ts)

\* self.tokens after the return: taken by Ok, left in place by Err.
TokensKept(es, ts) == IF Len(es) > 0 THEN ts ELSE <<>>

TokenizeEnd ==
    /\ pc = "scan" /\ ~(offset < Len(source))
    /\ errors' = ErrorsAtEnd
    /\ string_buf' = IF reading_string THEN <<>> ELSE string_buf
    /\ result' = TokenizeResult(ErrorsAtEnd, FinishedTokens(tokens))
    /\ tokens' = TokensKept(ErrorsAtEnd, FinishedTokens(tokens))
    /\ pc' = "returned"
    /\ UNCHANGED <<source, offset, reading_string, reading_number,
                   reading_identifier, read_start_offset, escape_next, calls>>

Next ==
    \/ TokenizeBegin
    \/ StringEscaped \/ StringClose \/ StringBackslash \/ StringChar
    \/ NumberAccumulate
    \/ IdentifierAccumulate
    \/ SkipWhitespace
    \/ PunctuationStep
    \/ OpenString \/ OpenNumber \/ OpenIdentifier
    \/ OperatorTwoChar \/ OperatorOneChar
    \/ CommentStep \/ SlashStep
    \/ InvalidToken
    \/ TokenizeEnd

Spec == Init /\ [][Next]_vars


(***************************************************************************)
(* Properties.                                                             *)
(***************************************************************************)
Returned == pc = "returned"

\* The first call of tokenize on a freshly constructed Tokenizer.
Fresh == calls = 1

Last(s) == s[Len(s)]

\* The character at a 0-based offset of the buffer.
CharAt(o) == source[o + 1]

\* The 0-based offset `o` is followed in the buffer by the character ch.
FollowedBy(o, ch) == o + 1 < Len(source) /\ CharAt(o + 1) = ch

\* A loop iteration is about to run on the character at `offset`.
Scanning == pc = "scan" /\ offset < Len(source)

NoLexemeOpen == ~reading_string /\ ~reading_number /\ ~reading_identifier

\* C1: when tokenize on a freshly constructed Tokenizer returns Ok, the
\* token sequence is non-empty, its last element is Eof and no other
\* element is Eof.
C1_EofLastAndOnly ==
    (Returned /\ Fresh /\ result.tag = "Ok") =>
        /\ Len(result.tokens) >= 1
        /\ Last(result.tokens) = Eof
        /\ \A i \in 1..(Len(result.tokens) - 1) : result.tokens[i] # Eof

\* A fresh call has returned Ok with tokens before the Eof.
C1_Witness ==
    Returned /\ Fresh /\ result.tag = "Ok" /\ Len(result.tokens) >= 3

\* C2: tokenize returns Err iff a diagnostic was recorded during the pass,
\* and Ok iff none was; Ok carries the complete token sequence (the tokens
\* built followed by Eof) and no text, Err carries the text and no tokens.
C2_AllOrNothing ==
    [][(pc = "scan" /\ pc' = "returned") =>
          /\ result'.tag \in {"Ok", "Err"}
          /\ result'.tag = "Err" <=> Len(errors') > 0
          /\ result'.tag = "Ok" <=> Len(errors') = 0
          /\ result'.tag = "Ok" =>
                result'.tokens = Append(tokens, Eof) /\ result'.text = <<>>
          /\ result'.tag = "Err" =>
                result'.tokens = <<>> /\ result'.text # <<>>]_vars

\* A call has returned Err although the pass had built tokens.
C2_Witness ==
    Returned /\ result.tag = "Err" /\ Len(errors) >= 2 /\ Len(tokens) >= 2

\* C3: when tokenize fails the tokens of the failed pass are discarded: after
\* an Err return the Tokenizer holds no tokens, and no call returns an Ok
\* result with more than one Eof.
C3_FailedPassDiscarded ==
    /\ (Returned /\ result.tag = "Err") => tokens = <<>>
    /\ (Returned /\ result.tag = "Ok") =>
          Cardinality({i \in 1..Len(result.tokens) : result.tokens[i] = Eof}) <= 1

\* The 1-indexed location of a 0-based offset: one plus the newlines before
\* it, and one plus the characters between the last of them and the offset.
NewlinesBefore(o) == {i \in 0..(o - 1) : CharAt(i) = "\n"}

LineStart(o) ==
    IF NewlinesBefore(o) = {} THEN 0
    ELSE 1 + (CHOOSE i \in NewlinesBefore(o) :
                 \A j \in NewlinesBefore(o) : j <= i)

OneIndexedLocation(o) == <<1 + Cardinality(NewlinesBefore(o)), 1 + (o - LineStart(o))>>

\* The pieces of a report: its index of "] Error: ", its kind and message.
ErrorMark(e) == CHOOSE i \in 1..Len(e) : e[i] = "] Error: "

ReportKind(e) == e[ErrorMark(e) + 1]

ReportMessage(e) == SubSeq(e, ErrorMark(e) + 1, Len(e))

\* C4: every diagnostic carries the 1-indexed (line, column) of its anchor
\* (the offending character of an invalid token, the start of the lexeme of
\* an invalid number or an unterminated string), the first character of
\* every line being at column 1.
C4_OneIndexedLocation ==
    [][\A k \in (Len(errors) + 1)..Len(errors') :
          LET e == errors'[k]
              anchor == IF ReportKind(e) = "Invalid token '"
                        THEN offset ELSE read_start_offset
              loc == OneIndexedLocation(anchor)
          IN  e = FormatReport(loc[1], loc[2], ReportMessage(e))]_vars

\* The tokens the four operator characters stand for.
OneCharName(c) ==
    CASE c = "!" -> "Bang" [] c = "=" -> "Equal"
      [] c = "<" -> "Less" [] c = ">" -> "Greater"

TwoCharName(c) ==
    CASE c = "!" -> "BangEqual" [] c = "=" -> "EqualEqual"
      [] c = "<" -> "LessEqual" [] c = ">" -> "GreatEqual"

\* C5: an operator character met outside a string emits exactly one token:
\* the two-character token, consuming both characters, iff the next
\* character is '='; otherwise the one-character token, consuming one.  So
\* "!=" scans as BangEqual and "!!o" as Bang, Bang, Identifier(o).
C5_MaximalMunch ==
    /\ [][(Scanning /\ ~reading_string /\ CharAt(offset) \in {"!", "=", "<", ">"}) =>
            LET c == CharAt(offset)
                two == FollowedBy(offset, "=")
                tok == Tok(IF two THEN TwoCharName(c) ELSE OneCharName(c))
            IN  /\ offset' = offset + (IF two THEN 2 ELSE 1)
                /\ Last(tokens') = tok
                /\ NoLexemeOpen => tokens' = Append(tokens, tok)
                /\ Len(tokens') <= Len(tokens) + 2
                /\ errors' = errors \/ reading_number
                /\ NoLexemeOpen']_vars
    /\ [](Returned /\ Fresh /\ source = <<"!", "=", " ">>
            => result = Ok(<<Tok("BangEqual"), Eof>>))
    /\ [](Returned /\ Fresh /\ source = <<"!", "!", "o", " ">>
            => result = Ok(<<Tok("Bang"), Tok("Bang"),
                             IdentifierTok(<<"o">>), Eof>>))

\* An operator followed by '=' has been scanned after another token.
C5_Witness ==
    /\ pc = "scan" /\ Len(tokens) = 2
    /\ tokens[1] = Tok("Bang") /\ tokens[2] = Tok("EqualEqual")

\* C6: "//" met outside a string skips to the next newline (or the end of
\* the buffer): the skipped characters give no token and no diagnostic,
\* whatever they are, and the scan resumes idle at the newline.
C6_CommentSuppression ==
    /\ [][(Scanning /\ ~reading_string /\ CharAt(offset) = "/"
             /\ FollowedBy(offset, "/")) =>
            /\ offset' > offset + 1 /\ offset' <= Len(source)
            /\ \A i \in (offset + 1)..(offset' - 1) : CharAt(i) # "\n"
            /\ offset' < Len(source) => CharAt(offset') = "\n"
            /\ NoLexemeOpen => tokens' = tokens /\ errors' = errors
            /\ Len(tokens') + Len(errors') <= Len(tokens) + Len(errors) + 1
            /\ NoLexemeOpen' /\ string_buf' = <<>>
            /\ pc' = "scan"]_vars
    /\ [](Returned /\ Fresh /\ Len(source) >= 2
            /\ source[1] = "/" /\ source[2] = "/"
            /\ (\A i \in 1..Len(source) : source[i] # "\n")
            => result = Ok(<<Eof>>))
    /\ [](Returned /\ Fresh /\ Len(source) = 5
            /\ SubSeq(source, 1, 2) = <<"/", "/">>
            /\ SubSeq(source, 3, 4) = <<"\n", ".">>
            => result = Ok(<<Tok("Dot"), Eof>>))

\* A comment holding an otherwise invalid character has been skipped up to
\* its newline, with no token and no diagnostic.
C6_Witness ==
    /\ pc = "scan" /\ Fresh /\ offset = 3 /\ Len(source) = 5
    /\ SubSeq(source, 1, 4) = <<"/", "/", "@", "\n">>
    /\ tokens = <<>> /\ errors = <<>>

SlashCount(ts) == Cardinality({i \in 1..Len(ts) : ts[i] = Tok("Slash")})

\* C7: '/' met outside a string and not followed by '/' emits exactly one
\* Slash and consumes that one character; '/' followed by '/' emits no
\* Slash and starts a comment.
C7_DivisionDisambiguation ==
    [][(Scanning /\ ~reading_string /\ CharAt(offset) = "/") =>
          IF FollowedBy(offset, "/")
          THEN /\ SlashCount(tokens') = SlashCount(tokens)
               /\ offset' >= offset + 2
          ELSE /\ SlashCount(tokens') = SlashCount(tokens) + 1
               /\ Last(tokens') = Tok("Slash")
               /\ NoLexemeOpen => tokens' = Append(tokens, Tok("Slash"))
               /\ offset' = offset + 1
               /\ NoLexemeOpen']_vars

\* A division: a Slash between two numbers.
C7_Witness ==
    /\ Returned /\ Fresh
    /\ result = Ok(<<NumberTok(<<1, 0>>), Tok("Slash"), NumberTok(<<1, 0>>), Eof>>)

\* C8: inside an open string the escaping backslash is not stored and the
\* character after it is appended whatever it is, without closing the
\* string; the string closes, emitting one String token with the
\* accumulated contents, exactly at the first '"' that is not escaped.
C8_StringEscaping ==
    [][(Scanning /\ reading_string) =>
          LET c == CharAt(offset) IN
          /\ offset' = offset + 1
          /\ escape_next =>
                /\ string_buf' = Append(string_buf, c)
                /\ ~escape_next' /\ reading_string' /\ tokens' = tokens
          /\ (~escape_next /\ c = "\\") =>
                /\ string_buf' = string_buf
                /\ escape_next' /\ reading_string' /\ tokens' = tokens
          /\ (~escape_next /\ c \notin {"\\", "\""}) =>
                /\ string_buf' = Append(string_buf, c)
                /\ ~escape_next' /\ reading_string' /\ tokens' = tokens
          /\ (~escape_next /\ c = "\"") =>
                /\ tokens' = Append(tokens, StringTok(string_buf))
                /\ ~reading_string' /\ string_buf' = <<>>
          /\ ~reading_string' <=> (~escape_next /\ c = "\"")
          /\ errors' = errors]_vars

\* A string whose contents are one escaped quote has been closed.
C8_Witness ==
    /\ pc = "scan" /\ ~reading_string
    /\ tokens = <<StringTok(<<"\"">>)>>

\* The 16 reserved spellings and their tokens.
ReservedWords ==
    { <<<<"a", "n", "d">>, "And">>, <<<<"c", "l", "a", "s", "s">>, "Class">>,
      <<<<"e", "l", "s", "e">>, "Else">>, <<<<"f", "a", "l", "s", "e">>, "False">>,
      <<<<"f", "u", "n">>, "Fun">>, <<<<"f", "o", "r">>, "For">>,
      <<<<"i", "f">>, "If">>, <<<<"n", "i", "l">>, "Nil">>,
      <<<<"o", "r">>, "Or">>, <<<<"p", "r", "i", "n", "t">>, "Print">>,
      <<<<"r", "e", "t", "u", "r", "n">>, "Return">>,
      <<<<"s", "u", "p", "e", "r">>, "Super">>,
      <<<<"t", "h", "i", "s">>, "This">>, <<<<"t", "r", "u", "e">>, "True">>,
      <<<<"v", "a", "r">>, "Var">>, <<<<"w", "h", "i", "l", "e">>, "While">> }

WordTypes == {w[2] : w \in ReservedWords} \cup {"Identifier"}

WordToken(text) ==
    IF \E w \in ReservedWords : w[1] = text
    THEN Tok((CHOOSE w \in ReservedWords : w[1] = text)[2])
    ELSE IdentifierTok(text)

\* C9: when an identifier lexeme is closed, exactly one token is emitted for
\* it: the keyword token if the accumulated text is exactly one of the 16
\* reserved spellings, otherwise Identifier carrying exactly that text.
C9_KeywordPartition ==
    [][(Scanning /\ reading_identifier /\ ~reading_identifier') =>
          /\ Len(tokens') \in {Len(tokens) + 1, Len(tokens) + 2}
          /\ SubSeq(tokens', 1, Len(tokens)) = tokens
          /\ tokens'[Len(tokens) + 1] = WordToken(string_buf)
          /\ Len(tokens') = Len(tokens) + 2 =>
                Last(tokens').type \notin WordTypes]_vars

\* The keyword Or and then an identifier that is a prefix of it.
C9_Witness ==
    /\ Len(tokens) = 2 /\ tokens[1] = Tok("Or")
    /\ tokens[2] = IdentifierTok(<<"o">>)

\* C10: a number or identifier lexeme still open at the last character of
\* the buffer is closed there, producing its token or its invalid-number
\* diagnostic, before Eof is appended; none is open when the loop ends.
C10_NoTrailingLexemeDropped ==
    /\ [](((pc = "scan" /\ ~(offset < Len(source))) \/ Returned)
            => ~reading_number /\ ~reading_identifier)
    /\ [][(Scanning /\ offset = Len(source) - 1
             /\ (reading_number \/ reading_identifier)) =>
            /\ ~reading_number' /\ ~reading_identifier'
            /\ Len(tokens') + Len(errors') = Len(tokens) + Len(errors) + 1
            /\ SubSeq(tokens', 1, Len(tokens)) = tokens
            /\ pc' = "scan"]_vars
    /\ [][(pc = "scan" /\ pc' = "returned") =>
            (IF result'.tag = "Ok" THEN result'.tokens ELSE tokens')
                = Append(tokens, Eof)]_vars

\* An input ending in a number has returned that number before Eof.
C10_Witness ==
    /\ Returned /\ Fresh /\ source = <<"o", "=", "1", "1", " ">>
    /\ result.tag = "Ok" /\ result.tokens[3] = NumberTok(<<11, 0>>)
    /\ Len(result.tokens) = 4

\* A character that is not whitespace and starts no lexeme: no punctuation,
\* quote, digit, letter, operator or slash.
StartsNothing(c) ==
    /\ ~is_whitespace(c)
    /\ c \notin {"(", ")", "{", "}", ",", ".", "-", "+", ";", "*"}
    /\ c # "\""
    /\ ~is_numeric(c) /\ ~is_alphabetic(c)
    /\ c \notin {"!", "=", "<", ">", "/"}

\* The reports joined by newline, in order, built from the left.
RECURSIVE JoinedUpTo(_, _)
JoinedUpTo(es, n) ==
    IF n = 1 THEN es[1] ELSE JoinedUpTo(es, n - 1) \o <<"\n">> \o es[n]

IsPrefix(s, t) == Len(s) <= Len(t) /\ SubSeq(t, 1, Len(s)) = s

\* C11: a character met with no lexeme open that is not whitespace and
\* starts no lexeme records exactly one "Invalid token" report anchored at
\* its own offset, leaves the lexer idle and the scan goes on with the next
\* character; reports are only ever added, the pass ends at the end of the
\* buffer, and the Err text is the reports joined by newline in the order
\* they were recorded.
C11_ErrorsAccumulated ==
    /\ [][(Scanning /\ NoLexemeOpen /\ StartsNothing(CharAt(offset))) =>
            LET loc == get_2d_location(source, offset)
            IN  /\ errors' = Append(errors, FormatReport(loc[1], loc[2],
                                 <<"Invalid token '", CharAt(offset), "'">>))
                /\ tokens' = tokens
                /\ NoLexemeOpen' /\ string_buf' = string_buf
                /\ offset' = offset + 1
                /\ pc' = "scan"]_vars
    /\ [][pc = "scan" => IsPrefix(errors, errors')]_vars
    /\ [][(pc = "scan" /\ pc' = "returned") =>
            /\ offset = Len(source)
            /\ errors' # <<>> =>
                  result' = Err(JoinedUpTo(errors', Len(errors')))]_vars

\* A pass has recorded three invalid tokens and returned them.
C11_Witness ==
    /\ Returned /\ Fresh /\ Len(errors) = 3
    /\ \A i \in 1..3 : ReportKind(errors[i]) = "Invalid token '"
    /\ result.tag = "Err"

\* C12: tokenize on a Tokenizer constructed from the empty string, or from
\* whitespace only, returns Ok with the single-element sequence [Eof].
C12_EmptyInput ==
    (Returned /\ Fresh
        /\ \A i \in 1..Len(source) : source[i] \in {" ", "\n", "\t", "\r"})
    => result = Ok(<<Eof>>)

\* The empty input has been scanned: the buffer holds the sentinel alone.
C12_Witness == Returned /\ Fresh /\ source = <<" ">> /\ result = Ok(<<Eof>>)

FlagCount ==
    (IF reading_string THEN 1 ELSE 0) + (IF reading_number THEN 1 ELSE 0)
        + (IF reading_identifier THEN 1 ELSE 0)

\* C14: during the scan at most one of reading_string, reading_number and
\* reading_identifier is true, escape_next is true only while
\* reading_string is, and string_buf is empty whenever no lexeme is open.
C14_ScanStateWellFormed ==
    pc = "scan" =>
        /\ FlagCount <= 1
        /\ escape_next => reading_string
        /\ NoLexemeOpen => string_buf = <<>>

\* The state InString(escape): a string is open with an escape pending,
\* after earlier lexemes were closed.
C14_Witness ==
    /\ pc = "scan" /\ reading_string /\ escape_next
    /\ ~reading_number /\ ~reading_identifier
    /\ Len(tokens) >= 1

\* Longest source text of the behaviours checked for termination.
MaxFairLen == 3

FairInit == Init /\ Len(source) <= MaxFairLen

\* The scan under the scheduling of sequential code: tokenize runs on to its
\* return, it is never suspended.
FairSpec == FairInit /\ [][Next]_vars /\ WF_vars(Next)

\* C15: within one call every loop iteration moves the cursor strictly
\* forward (by more than 1 only at an operator or a slash), the cursor
\* never exceeds the length of the sentinel-extended buffer, the loop is
\* left exactly when the cursor equals that length, and every call returns.
C15_ForwardProgress ==
    /\ [](offset <= Len(source))
    /\ [][Scanning =>
            /\ pc' = "scan" /\ source' = source
            /\ offset' > offset /\ offset' <= Len(source)
            /\ offset' > offset + 1 =>
                  CharAt(offset) \in {"!", "=", "<", ">", "/"}]_vars
    /\ [][(pc = "scan" /\ pc' = "returned") => offset = Len(source)]_vars
    /\ [][(pc = "scan" /\ offset = Len(source)) => pc' = "returned"]_vars
    /\ (pc = "scan") ~> (pc = "returned")

\* A comment running to the end of the input has moved the cursor over the
\* sentinel, to the end of the buffer.
C15_Witness ==
    /\ pc = "scan" /\ offset = Len(source) /\ Len(source) = 4
    /\ SubSeq(source, 2, 3) = <<"/", "/">>

\* The examples of the closing character: "x=1;" and "1abc".
ClosingExamples ==
    /\ (Returned /\ Fresh /\ source = <<"x", "=", "1", ";", " ">>) =>
          result = Ok(<<IdentifierTok(<<"x">>), Tok("Equal"),
                        NumberTok(<<1, 0>>), Tok("Semicolon"), Eof>>)
    /\ (Returned /\ Fresh /\ source = <<"1", "a", "b", "c", " ">>) =>
          result = Ok(<<NumberTok(<<1, 0>>),
                        IdentifierTok(<<"a", "b", "c">>), Eof>>)

\* What the idle rules do with character c at the cursor: the token it
\* emits (if any), the lexeme it opens (if any) and whether it is invalid.
IdleTokens(c) ==
    CASE c = "(" -> <<Tok("LeftParen")>> [] c = ")" -> <<Tok("RightParen")>>
      [] c = "{" -> <<Tok("LeftBrace")>> [] c = "}" -> <<Tok("RightBrace")>>
      [] c = "," -> <<Tok("Comma")>> [] c = "." -> <<Tok("Dot")>>
      [] c = "-" -> <<Tok("Minus")>> [] c = "+" -> <<Tok("Plus")>>
      [] c = ";" -> <<Tok("Semicolon")>> [] c = "*" -> <<Tok("Star")>>
      [] c \in {"!", "=", "<", ">"} ->
            <<Tok(IF FollowedBy(offset, "=") THEN TwoCharName(c)
                  ELSE OneCharName(c))>>
      [] c = "/" -> IF FollowedBy(offset, "/") THEN <<>> ELSE <<Tok("Slash")>>
      [] OTHER -> <<>>

IdleOpens(c) ==
    IF c = "\"" THEN "string"
    ELSE IF is_numeric(c) THEN "number"
    ELSE IF is_alphabetic(c) THEN "identifier"
    ELSE "none"

\* C16: the character that closes a number or identifier lexeme is handled,
\* in the step that closes the lexeme, by the idle rules: after the closed
\* lexeme's token (or invalid-number report) comes what that character
\* emits, opens or reports, so "x=1;" gives Identifier(x), Equal, Number(1),
\* Semicolon and "1abc" gives Number(1), Identifier(abc).
C16_ClosingCharacterKept ==
    /\ []ClosingExamples
    /\ [][(Scanning /\ ~reading_string
             /\ \/ reading_number /\ ~is_numeric(CharAt(offset))
                                  /\ CharAt(offset) # "."
                \/ reading_identifier /\ ~is_alphanumeric(CharAt(offset))) =>
            LET c == CharAt(offset)
                closed == IF reading_identifier THEN <<WordToken(string_buf)>>
                          ELSE IF F64Parses(string_buf)
                          THEN <<NumberTok(F64Value(string_buf))>>
                          ELSE <<>>
                nreports == (IF reading_number /\ ~F64Parses(string_buf)
                             THEN 1 ELSE 0)
                            + (IF StartsNothing(c) THEN 1 ELSE 0)
            IN  /\ tokens' = tokens \o closed \o IdleTokens(c)
                /\ Len(errors') = Len(errors) + nreports
                /\ StartsNothing(c) => ReportKind(Last(errors')) = "Invalid token '"
                /\ reading_string' <=> IdleOpens(c) = "string"
                /\ reading_number' <=> IdleOpens(c) = "number"
                /\ reading_identifier' <=> IdleOpens(c) = "identifier"
                /\ string_buf' = IF IdleOpens(c) \in {"number", "identifier"}
                                 THEN <<c>> ELSE <<>>
                /\ IdleOpens(c) # "none" => read_start_offset' = offset
                /\ offset' > offset]_vars

\* A number has been closed by a letter, which opened an identifier.
C16_Witness ==
    /\ pc = "scan" /\ tokens = <<NumberTok(<<1, 0>>)>>
    /\ reading_identifier /\ string_buf = <<"o">> /\ read_start_offset = 1

\* The report of an invalid number lexeme `text` that started at offset o.
InvalidNumberReport(text, o) ==
    LET loc == get_2d_location(source, o)
    IN  FormatReport(loc[1], loc[2], <<"Invalid number '">> \o text \o <<"'">>)

\* C17: a number lexeme starts at an ASCII digit and takes in every
\* following digit and '.'; closed, it gives exactly one outcome: a Number
\* token if its text holds at most one '.', else an "Invalid number" report
\* anchored at its start and no token.  Only several dots make a number
\* invalid.
C17_NumberLexemes ==
    /\ [][(Scanning /\ ~reading_number /\ reading_number') =>
            CharAt(offset) \in AsciiDigits]_vars
    /\ [][(Scanning /\ ~reading_string /\ reading_number) =>
            LET c == CharAt(offset) IN
            IF c \in AsciiDigits \cup {"."}
            THEN /\ string_buf' = Append(string_buf, c) /\ reading_number'
                 /\ tokens' = tokens /\ errors' = errors
            ELSE IF DotCount(string_buf) <= 1
            THEN /\ Len(tokens') > Len(tokens)
                 /\ tokens'[Len(tokens) + 1].type = "Number"
                 /\ \A k \in (Len(errors) + 1)..Len(errors') :
                       ReportKind(errors'[k]) # "Invalid number '"
            ELSE /\ Len(errors') > Len(errors)
                 /\ errors'[Len(errors) + 1]
                       = InvalidNumberReport(string_buf, read_start_offset)
                 /\ \A k \in (Len(tokens) + 1)..Len(tokens') :
                       tokens'[k].type # "Number"]_vars

\* C18: if the input ends while a string is open, exactly one "Unterminated
\* string" report is recorded, after every other, anchored at the offset of
\* the string's opening quote, and no character after that quote has given
\* a token or a report; if no string is open at the end none is recorded.
C18_UnterminatedString ==
    /\ []((pc = "scan" /\ reading_string) =>
            read_start_offset < offset /\ CharAt(read_start_offset) = "\"")
    /\ [][(Scanning /\ reading_string /\ reading_string') =>
            tokens' = tokens /\ errors' = errors
                /\ read_start_offset' = read_start_offset]_vars
    /\ [][(pc = "scan" /\ pc' = "returned") =>
            IF reading_string
            THEN LET loc == get_2d_location(source, read_start_offset)
                 IN  /\ errors' = Append(errors, FormatReport(loc[1], loc[2],
                                     <<"Unterminated string ">> \o string_buf))
                     /\ \A k \in 1..Len(errors) :
                           ReportKind(errors[k]) # "Unterminated string "
                     /\ result'.tag = "Err"
            ELSE /\ errors' = errors
                 /\ \A k \in 1..Len(errors) :
                       ReportKind(errors[k]) # "Unterminated string "]_vars

\* A pass has ended in an open string that followed an invalid token: the
\* unterminated-string report is the second and last one.
C18_Witness ==
    /\ Returned /\ Fresh /\ Len(errors) = 2
    /\ ReportKind(errors[1]) = "Invalid token '"
    /\ ReportKind(errors[2]) = "Unterminated string "
    /\ SubSeq(errors[2], 1, 4) = <<"[", "1", ":", "2">>

\* The characters a string's source text stands for: a backslash gives the
\* character after it, every other character gives itself.
RECURSIVE DecodedContents(_)
DecodedContents(s) ==
    IF s = <<>> THEN <<>>
    ELSE IF s[1] = "\\"
    THEN IF Len(s) >= 2
         THEN <<s[2]>> \o DecodedContents(SubSeq(s, 3, Len(s)))
         ELSE <<>>
    ELSE <<s[1]>> \o DecodedContents(Tail(s))

\* The loop is about to run on the sentinel blank of a first call.
AtSentinel == Scanning /\ Fresh /\ offset = Len(source) - 1

\* C19: the sentinel blank only closes a trailing number or identifier: the
\* step that reads it accumulates nothing and pushes no token longer than
\* the lexeme gathered so far, and the contents quoted by an "Unterminated
\* string" report are exactly the decoded characters of the original input
\* after the opening quote.
C19_SentinelNotAccumulated ==
    /\ [][AtSentinel =>
            /\ Len(string_buf') <= Len(string_buf)
            /\ \A k \in (Len(tokens) + 1)..Len(tokens') :
                  Len(tokens'[k].text) <= Len(string_buf)]_vars
    /\ [][(pc = "scan" /\ pc' = "returned" /\ Fresh /\ reading_string) =>
            ReportMessage(Last(errors')) =
                UnterminatedMessage(DecodedContents(
                    SubSeq(source, read_start_offset + 2,
                           Len(source) - 1)))]_vars

\* The number a sequence of decimal digit pieces writes.
RECURSIVE FromDigits(_)
FromDigits(ds) ==
    IF ds = <<>> THEN 0
    ELSE 10 * FromDigits(SubSeq(ds, 1, Len(ds) - 1)) + DigitValue(Last(ds))

\* The position of the ":" between the line and the column of a report.
ReportColon(e) == CHOOSE i \in 1..Len(e) : e[i] = ":" /\ i < ErrorMark(e)

ReportLine(e) == FromDigits(SubSeq(e, 2, ReportColon(e) - 1))

ReportColumn(e) == FromDigits(SubSeq(e, ReportColon(e) + 1, ErrorMark(e) - 1))

\* The offsets of the buffer that the location walk sends to the line and
\* column a report shows.
ReportAnchors(e) ==
    LET location == <<ReportLine(e), ReportColumn(e)>>
    IN  {o \in 0..(Len(source) - 1) : get_2d_location(source, o) = location}

\* The offset a report is anchored at.
ReportAnchor(e) == CHOOSE o \in ReportAnchors(e) : TRUE

\* C20: within one call the anchor offsets of the recorded reports are
\* strictly increasing in the order the reports are recorded, so no two
\* reports share an anchor: every report a step records is anchored at one
\* offset of the buffer, after the anchor of the report before it.
C20_DiagnosticOrder ==
    [][(pc = "scan" /\ Len(errors') > Len(errors)) =>
          /\ IsPrefix(errors, errors')
          /\ \A k \in (Len(errors) + 1)..Len(errors') :
                LET anchors == ReportAnchors(errors'[k])
                IN  /\ Cardinality(anchors) = 1
                    /\ k > 1 =>
                          \A a \in ReportAnchors(errors'[k - 1]) :
                              \A b \in anchors : a < b]_vars

\* A pass has recorded an invalid number when a character that is itself
\* invalid closed the lexeme: the number's report comes first and is
\* anchored before the token's.
C20_Witness ==
    /\ Returned /\ Fresh /\ Len(errors) = 2
    /\ ReportKind(errors[1]) = "Invalid number '"
    /\ ReportKind(errors[2]) = "Invalid token '"
    /\ ReportAnchor(errors[1]) = 0
    /\ ReportAnchor(errors[2]) = 3
====
